---- MODULE Spec2Model ----
(***************************************************************************)
(* Model of midas_comms.py: the serial protocol client of a Megnajet/Xaar  *)
(* CIMSII/Midas ink delivery system.  MidasSerial frames commands and      *)
(* classifies replies; Status, Pressures, Temperatures, Pumps, Purge and   *)
(* Midas hold one cached field (or an actual/demand pair) per parameter    *)
(* and one get_/set_ method per parameter.                                 *)
(*                                                                         *)
(* Python strings are sequences of one-character strings, bytes are        *)
(* sequences of integers 0..255.  A Python value is a record               *)
(* [t |-> "str" | "bool" | "exc", s |-> ...] so that values of different   *)
(* Python types can be compared.  A call ends in an outcome                *)
(* [kind |-> "return" | "raise", val |-> value].                           *)
(***************************************************************************)
EXTENDS Integers, Sequences, FiniteSets, TLC

VARIABLES
  conn,   \* MidasSerial.serial: "none" (attribute not set), "open", "closed"
  cache,  \* every cached attribute of Status .. Midas, by name
  last,   \* the most recent accessor call: its inputs, exchanges and outcome
  calls,  \* number of accessor calls made so far
  config,         \* MidasSerial.port, baudrate, stopbits, parity, databits, timeout
  port_settings,  \* the arguments self.serial was constructed with, if it was
  lock,           \* the caller holding the lock around the facade, or "free"
  pc,             \* for each caller, its position in its accessor call
  inbuf,          \* replies received by the port and not yet read
  inflight,       \* replies the device has still to send
  took            \* the last reply read: whose call read it, whose command it answers

linevars == <<lock, pc, inbuf, inflight, took>>
vars == <<conn, cache, last, calls, config, port_settings, linevars>>

(* Bounds of the exploration *)
MaxCalls == 2
MaxNode == 16

(***************************************************************************)
(* Python values and builtins                                              *)
(***************************************************************************)
Str(s) == [t |-> "str", s |-> s]
Lit(text) == [t |-> "str", s |-> <<text>>]
PyBool(b) == [t |-> "bool", s |-> IF b THEN <<"True">> ELSE <<"False">>]
PyTrue == PyBool(TRUE)
Exc(name) == [t |-> "exc", s |-> <<name>>]
Return(v) == [kind |-> "return", val |-> v]
Raise(name) == [kind |-> "raise", val |-> Exc(name)]

Ascii ==
  <<" ", "!", "\"", "#", "$", "%", "&", "'", "(", ")", "*", "+", ",", "-",
    ".", "/", "0", "1", "2", "3", "4", "5", "6", "7", "8", "9", ":", ";",
    "<", "=", ">", "?", "@", "A", "B", "C", "D", "E", "F", "G", "H", "I",
    "J", "K", "L", "M", "N", "O", "P", "Q", "R", "S", "T", "U", "V", "W",
    "X", "Y", "Z", "[", "\\", "]", "^", "_", "grave", "a", "b", "c", "d", "e",
    "f", "g", "h", "i", "j", "k", "l", "m", "n", "o", "p", "q", "r", "s",
    "t", "u", "v", "w", "x", "y", "z", "{", "|", "}", "~">>

\* ord() and chr() on carriage return and the printable ASCII characters
\* (code point 96, which a TLA+ string cannot hold, is spelled "grave")
CodePoint ==
  [c \in {Ascii[i] : i \in 1..Len(Ascii)} \cup {"\r"} |->
    IF c = "\r" THEN 13 ELSE 31 + (CHOOSE i \in 1..Len(Ascii) : Ascii[i] = c)]
ord(c) == CodePoint[c]
chr(n) == IF n = 13 THEN "\r" ELSE Ascii[n - 31]

\* bytes(command, 'utf-8'): one byte per ASCII character, its code point
bytes_utf8(s) == [i \in 1..Len(s) |-> ord(s[i])]

\* bytes.decode("utf-8"): a byte above 127 that starts no valid sequence raises
decode_utf8(b) ==
  IF \E i \in 1..Len(b) : b[i] > 127
    THEN [raised |-> "UnicodeDecodeError", s |-> <<>>]
    ELSE [raised |-> "", s |-> [i \in 1..Len(b) |-> chr(b[i])]]

\* str.__getitem__ with the key (a, b): a tuple is neither an integer nor a
\* slice, so the subscription raises TypeError whatever the string holds.
str_getitem_tuple(s, a, b) == [raised |-> "TypeError", s |-> <<>>]

(***************************************************************************)
(* MidasSerial                                                             *)
(***************************************************************************)
\* open_connection: serial.Serial(...) yields an open port object
open_connection == "open"

\* close_connection: self.serial.close(); AttributeError when never opened
close_connection(c) == IF c = "none" THEN "none" ELSE "closed"

\* serial_write with the address counted from 'A' instead of '@'
serial_write_from_A(command, node_id, c) ==
  LET network_address == chr(ord("A") + node_id)
      cmd == IF node_id # 0 THEN <<network_address>> \o command ELSE command
  IN  IF c = "none" THEN [raised |-> "AttributeError", tx |-> <<>>]
      ELSE IF c = "open" THEN [raised |-> "", tx |-> <<bytes_utf8(cmd)>>]
      ELSE [raised |-> "", tx |-> <<>>]

\* serial_write: the frames handed to serial.write (none on a closed port);
\* reading self.serial before open_connection raises AttributeError
serial_write(command, node_id, c) ==
  LET network_address == chr(ord("@") + node_id)
      cmd == IF node_id # 0 THEN <<network_address>> \o command ELSE command
  IN  IF c = "none" THEN [raised |-> "AttributeError", tx |-> <<>>]
      ELSE IF c = "open" THEN [raised |-> "", tx |-> <<bytes_utf8(cmd)>>]
      ELSE [raised |-> "", tx |-> <<>>]

\* Reply frames the device can put on the line (as bytes)
Frames ==
  { bytes_utf8(<<",", "A", ",", "C">>),
    bytes_utf8(<<"?", ",", "C">>),
    bytes_utf8(<<">", ",", "C">>),
    bytes_utf8(<<",", "A", "4", "5", ",", "C">>),
    <<>> }

RxFrame(f) == [kind |-> "bytes", data |-> f]
RxFail(name) == [kind |-> name, data |-> <<>>]

\* serial.read_until: the bytes read, or the error it raises; a port that is
\* not open raises a SerialException
ReadOutcomes(c) ==
  IF c = "open"
    THEN {RxFrame(f) : f \in Frames} \cup {RxFail("TimeoutError"), RxFail("SerialException")}
    ELSE {RxFail("SerialException")}

\* serial_response: the classification of one read
serial_response(response_type, rx) ==
  IF rx.kind # "bytes" THEN Return(Exc(rx.kind))
  ELSE
    LET d == decode_utf8(rx.data)
        response == d.s
        response_check == str_getitem_tuple(response, Len(response) - 3, 1)
        response_information == str_getitem_tuple(response, 2, Len(response) - 2)
    IN  IF d.raised # "" THEN Raise(d.raised)
        ELSE IF response_check.raised # "" THEN Raise(response_check.raised)
        ELSE IF response_check.s = <<"?">> THEN Return(Str(<<"?", ",", "C">>))
        ELSE IF response_check.s = <<">">> THEN Return(Str(<<"<", ",", "C">>))
        ELSE IF response_type = "set"
          THEN Return(PyBool(response = <<",", "A", ",", "C">>))
        ELSE IF response_type = "get"
          THEN IF response_information.raised # ""
                 THEN Raise(response_information.raised)
                 ELSE Return(Str(response_information.s))
        ELSE Return(Str(<<"N", "o", "n", "e">>))

(***************************************************************************)
(* The accessors of Status, Pressures, Temperatures, Pumps, Purge, Midas   *)
(***************************************************************************)
\* The get_ methods: the command code queried and the attribute assigned
\* (key "actual" of a dictionary attribute, or the attribute itself)
Getters == [
  get_status_word |->
    [code |-> <<"S", "T", "A">>, attr |-> "status_word", key |-> ""],
  get_status_bit |->
    [code |-> <<"S", "S", "B">>, attr |-> "status_bit", key |-> ""],
  get_last_error_code |->
    [code |-> <<"S", "L", "E">>, attr |-> "error_desc", key |-> ""],
  get_alarms |->
    [code |-> <<"S", "A", "1">>, attr |-> "alarm", key |-> ""],
  get_system_running_hours |->
    [code |-> <<"S", "V", "N">>, attr |-> "running_hours", key |-> ""],
  get_alam_masks |->
    [code |-> <<"S", "A", "B">>, attr |-> "alarm_masks", key |-> "actual"],
  get_critical_alarms |->
    [code |-> <<"S", "A", "M">>, attr |-> "critical_alarms", key |-> "actual"],
  get_fill_cycles |->
    [code |-> <<"S", "F", "C">>, attr |-> "fill_cycles", key |-> ""],
  get_return_pressure |->
    [code |-> <<"S", "V", "P">>, attr |-> "return_pressure", key |-> "actual"],
  get_non_recirc_meniscus_pressure |->
    [code |-> <<"S", "V", "2">>, attr |-> "non_recirc_meniscus_pressure", key |-> "actual"],
  get_infeed_pressure |->
    [code |-> <<"S", "R", "S">>, attr |-> "infeed_pressure", key |-> "actual"],
  get_pressure_sensor_type |->
    [code |-> <<"S", "S", "R">>, attr |-> "pressure_sensor_type", key |-> "actual"],
  get_heater_temp_1 |->
    [code |-> <<"S", "T", "3">>, attr |-> "temp_heater_1", key |-> ""],
  get_tank_temperature |->
    [code |-> <<"S", "H", "T">>, attr |-> "tank_temperature", key |-> "actual"],
  get_aux_temperture |->
    [code |-> <<"S", "H", "2">>, attr |-> "aux_temp", key |-> "actual"],
  get_preheat_time |->
    [code |-> <<"S", "P", "H">>, attr |-> "preheat_time", key |-> "actual"],
  get_heater_1_duty |->
    [code |-> <<"S", "H", "D">>, attr |-> "heater_1_duty", key |-> "actual"],
  get_heater_2_duty |->
    [code |-> <<"S", "H", "A">>, attr |-> "heater_2_duty", key |-> "actual"],
  get_pump_timeout |->
    [code |-> <<"S", "T", "O">>, attr |-> "pump_timeout", key |-> "actual"],
  get_manual_recirc_speed |->
    [code |-> <<"S", "M", "R">>, attr |-> "manual_recirc_speed", key |-> "actual"],
  get_fill_speed |->
    [code |-> <<"S", "F", "S">>, attr |-> "fill_speed", key |-> "actual"],
  get_recirc_pump_command |->
    [code |-> <<"S", "V", "R">>, attr |-> "recirc_command", key |-> ""],
  get_manual_meniscus |->
    [code |-> <<"S", "N", "I">>, attr |-> "manual_meniscus_state", key |-> "actual"],
  get_meniscus_pump_command |->
    [code |-> <<"S", "V", "M">>, attr |-> "meniscus_command", key |-> ""],
  get_purge_pressure |->
    [code |-> <<"S", "P", "P">>, attr |-> "purge_pressure", key |-> "actual"],
  get_purge_status |->
    [code |-> <<"S", "T", "P">>, attr |-> "purge_type", key |-> "actual"],
  get_purge_time |->
    [code |-> <<"S", "P", "T">>, attr |-> "purge_time", key |-> "actual"],
  get_local_purge_time |->
    [code |-> <<"S", "L", "P">>, attr |-> "local_purge_time", key |-> "actual"],
  get_firmware_version |->
    [code |-> <<"S", "V", "N">>, attr |-> "firmware_version", key |-> ""],
  get_serial_number |->
    [code |-> <<"S", "S", "N">>, attr |-> "serial_number", key |-> ""],
  get_system_type |->
    [code |-> <<"S", "U", "T">>, attr |-> "system_type", key |-> ""],
  get_bypass_time |->
    [code |-> <<"S", "B", "T">>, attr |-> "bypass_time", key |-> "actual"],
  get_drain_status |->
    [code |-> <<"S", "D", "S">>, attr |-> "drain_status", key |-> "actual"],
  get_prime_system_status |->
    [code |-> <<"S", "P", "R">>, attr |-> "prime_state", key |-> "actual"],
  get_network_id |->
    [code |-> <<"S", "N", "I">>, attr |-> "network_id", key |-> ""],
  get_enable_bits |->
    [code |-> <<"S", "E", "B">>, attr |-> "enable_bits", key |-> "actual"],
  get_extended_enable_bits |->
    [code |-> <<"S", "E", "E">>, attr |-> "extended_enable_bits", key |-> "actual"],
  get_dynamic_calibration_state |->
    [code |-> <<"S", "D", "C">>, attr |-> "dynamic_calibration_state", key |-> "actual"]]

\* The set_ methods, triger_purge and clear_alarms: the command code, the
\* fixed argument of clear_alarms, the attribute assigned on True (none for
\* clear_alarms) and the get_ method called after it (none for two of them)
Setters == [
  set_alam_masks |->
    [code |-> <<"S", "A", "B">>, fixed |-> <<>>, attr |-> "alarm_masks", key |-> "demand",
     readback |-> "get_alam_masks"],
  set_critical_alarms |->
    [code |-> <<"S", "A", "M">>, fixed |-> <<>>, attr |-> "critical_alarms", key |-> "demand",
     readback |-> "get_critical_alarms"],
  clear_alarms |->
    [code |-> <<"S", "A", "1">>, fixed |-> <<"0">>, attr |-> "", key |-> "",
     readback |-> "get_alarms"],
  set_return_pressure |->
    [code |-> <<"S", "V", "P">>, fixed |-> <<>>, attr |-> "return_pressure", key |-> "demand",
     readback |-> "get_return_pressure"],
  set_non_recirc_meniscus_pressure |->
    [code |-> <<"S", "V", "2">>, fixed |-> <<>>, attr |-> "non_recirc_meniscus_pressure", key |-> "demand",
     readback |-> "get_non_recirc_meniscus_pressure"],
  set_infeed_pressure |->
    [code |-> <<"S", "R", "S">>, fixed |-> <<>>, attr |-> "infeed_pressure", key |-> "demand",
     readback |-> "get_infeed_pressure"],
  set_pressure_sensor_type |->
    [code |-> <<"S", "S", "R">>, fixed |-> <<>>, attr |-> "pressure_sensor_type", key |-> "demand",
     readback |-> "get_pressure_sensor_type"],
  set_tank_temperature |->
    [code |-> <<"S", "H", "T">>, fixed |-> <<>>, attr |-> "tank_temperature", key |-> "demand",
     readback |-> "get_tank_temperature"],
  set_aux_temperture |->
    [code |-> <<"S", "H", "2">>, fixed |-> <<>>, attr |-> "aux_temp", key |-> "demand",
     readback |-> "get_aux_temperture"],
  set_preheat_time |->
    [code |-> <<"S", "P", "H">>, fixed |-> <<>>, attr |-> "preheat_time", key |-> "demand",
     readback |-> "get_preheat_time"],
  set_heater_1_duty |->
    [code |-> <<"S", "H", "D">>, fixed |-> <<>>, attr |-> "heater_1_duty", key |-> "demand",
     readback |-> "get_heater_1_duty"],
  set_heater_2_duty |->
    [code |-> <<"S", "H", "A">>, fixed |-> <<>>, attr |-> "heater_2_duty", key |-> "demand",
     readback |-> "get_heater_2_duty"],
  set_pump_timeout |->
    [code |-> <<"S", "T", "O">>, fixed |-> <<>>, attr |-> "pump_timeout", key |-> "demand",
     readback |-> "get_pump_timeout"],
  set_manual_recirc_speed |->
    [code |-> <<"S", "M", "R">>, fixed |-> <<>>, attr |-> "manual_recirc_speed", key |-> "demand",
     readback |-> "get_manual_recirc_speed"],
  set_fill_speed |->
    [code |-> <<"S", "F", "S">>, fixed |-> <<>>, attr |-> "fill_speed", key |-> "demand",
     readback |-> "get_fill_speed"],
  set_manual_meniscus |->
    [code |-> <<"S", "N", "I">>, fixed |-> <<>>, attr |-> "manual_meniscus_state", key |-> "demand",
     readback |-> "get_manual_meniscus"],
  set_purge_pressure |->
    [code |-> <<"S", "P", "P">>, fixed |-> <<>>, attr |-> "purge_pressure", key |-> "demand",
     readback |-> "get_purge_pressure"],
  triger_purge |->
    [code |-> <<"S", "T", "P">>, fixed |-> <<>>, attr |-> "purge_type", key |-> "demand",
     readback |-> "get_purge_status"],
  set_purge_time |->
    [code |-> <<"S", "P", "T">>, fixed |-> <<>>, attr |-> "purge_time", key |-> "demand",
     readback |-> "get_purge_time"],
  set_local_purge_time |->
    [code |-> <<"S", "L", "P">>, fixed |-> <<>>, attr |-> "local_purge_time", key |-> "demand",
     readback |-> "get_local_purge_time"],
  set_active_heads |->
    [code |-> <<"S", "A", "H">>, fixed |-> <<>>, attr |-> "active_heads", key |-> "",
     readback |-> ""],
  set_bypass_time |->
    [code |-> <<"S", "B", "T">>, fixed |-> <<>>, attr |-> "bypass_time", key |-> "demand",
     readback |-> "get_bypass_time"],
  set_startup_function |->
    [code |-> <<"S", "C", "S">>, fixed |-> <<>>, attr |-> "statup_function", key |-> "",
     readback |-> ""],
  set_drain |->
    [code |-> <<"S", "D", "S">>, fixed |-> <<>>, attr |-> "drain_status", key |-> "demand",
     readback |-> "get_drain_status"],
  set_prime_system |->
    [code |-> <<"S", "P", "R">>, fixed |-> <<>>, attr |-> "prime_state", key |-> "demand",
     readback |-> "get_prime_system_status"],
  set_network_id |->
    [code |-> <<"S", "N", "I">>, fixed |-> <<>>, attr |-> "network_id", key |-> "",
     readback |-> "get_network_id"],
  set_enable_bits |->
    [code |-> <<"S", "E", "B">>, fixed |-> <<>>, attr |-> "enable_bits", key |-> "demand",
     readback |-> "get_enable_bits"],
  set_extended_enable_bits |->
    [code |-> <<"S", "E", "E">>, fixed |-> <<>>, attr |-> "extended_enable_bits", key |-> "demand",
     readback |-> "get_extended_enable_bits"],
  set_dynamic_calibration_state |->
    [code |-> <<"S", "D", "C">>, fixed |-> <<>>, attr |-> "dynamic_calibration_state", key |-> "demand",
     readback |-> "get_dynamic_calibration_state"]]

\* get_last_error_code: the match on the reply of "SLE?"
error_desc(error_code) ==
  CASE error_code = Str(<<"0">>) -> Lit("0 - No error reported")
    [] error_code = Str(<<"1", "0">>) -> Lit("10 - Temperature heater 1 less than 1")
    [] error_code = Str(<<"2", "0">>) -> Lit("20 - Temperature heater 1 higher than upper limit")
    [] error_code = Str(<<"3", "0">>) -> Lit("30 - Temperature heater 1 ground loop error")
    [] error_code = Str(<<"4", "0">>) -> Lit("40 - Temperature heater 2 less than 1")
    [] error_code = Str(<<"5", "0">>) -> Lit("50 - Temperature heater 2 higher than upper limit")
    [] error_code = Str(<<"6", "0">>) -> Lit("60 - Temperature heater 2 ground loop error")
    [] error_code = Str(<<"7", "0">>) -> Lit("70 - i2c read erro")
    [] OTHER -> Lit("No response")

\* The sixteen-bit pattern "hhhhhhhh llllllll" with one bit set, as get_alarms spells it
AlarmBits(bit) ==
  [i \in 1..17 |-> IF i = 9 THEN " " ELSE IF i = (IF bit < 8 THEN 17 - bit ELSE 16 - bit) THEN "1" ELSE "0"]

\* get_alarms: the match on the reply of "SA1?"
alarm_desc(midas_response) ==
  CASE midas_response = Str(AlarmBits(0)) -> Lit("vacuum/pressure alarm")
    [] midas_response = Str(AlarmBits(1)) -> Lit("pump timeout")
    [] midas_response = Str(AlarmBits(2)) -> Lit("ink level warning")
    [] midas_response = Str(AlarmBits(3)) -> Lit("ink bottle empty")
    [] midas_response = Str(AlarmBits(4)) -> Lit("Tank thermocouple fault")
    [] midas_response = Str(AlarmBits(5)) -> Lit("degass fault (if fitted)")
    [] midas_response = Str(AlarmBits(6)) -> Lit("recirc fault (if recirc version)")
    [] midas_response = Str(AlarmBits(7)) -> Lit("Failsafe alarm (float switch in the air bottle)")
    [] midas_response = Str(AlarmBits(8)) -> Lit("meniscus pump running to slow (bleed filter blocked)")
    [] midas_response = Str(AlarmBits(9)) -> Lit("meniscus pump running to fast (air leak)")
    [] midas_response = Str(AlarmBits(10)) -> Lit("recirc pump running to slow (blockage in pipework/head)")
    [] midas_response = Str(AlarmBits(11)) -> Lit("recirc pump running to fast (leak/pump fault)")
    [] OTHER -> Lit("None")

\* Every cached attribute set by the constructors, all initially ""
Field(attr, key) == [attr |-> attr, key |-> key]
GetterField(g) == Field(Getters[g].attr, Getters[g].key)
SetterField(s) == Field(Setters[s].attr, Setters[s].key)
Fields ==
  {GetterField(g) : g \in DOMAIN Getters}
    \cup {SetterField(s) : s \in {n \in DOMAIN Setters : Setters[n].attr # ""}}

\* A getter that keeps the result only when the call is to node 0
getter_node_zero_only(name, node_id, c, ch, rx) ==
  LET g == Getters[name]
      w == serial_write(g.code \o <<"?", "\r">>, node_id, c)
      r == serial_response("get", rx)
      x == <<[type |-> "get", tx |-> w.tx, rx |-> rx, res |-> r]>>
      stored == IF name = "get_last_error_code" THEN error_desc(r.val)
                ELSE IF name = "get_alarms" THEN alarm_desc(r.val)
                ELSE r.val
  IN  IF w.raised # "" THEN [cache |-> ch, xch |-> <<>>, out |-> Raise(w.raised)]
      ELSE IF r.kind = "raise" THEN [cache |-> ch, xch |-> x, out |-> r]
      ELSE IF node_id # 0 THEN [cache |-> ch, xch |-> x, out |-> Return(stored)]
      ELSE [cache |-> [ch EXCEPT ![GetterField(name)] = stored], xch |-> x, out |-> Return(stored)]

\* A getter that assigns the attribute of get_status_word, whatever it read
getter_shared_slot(name, node_id, c, ch, rx) ==
  LET g == Getters[name]
      w == serial_write(g.code \o <<"?", "\r">>, node_id, c)
      r == serial_response("get", rx)
      x == <<[type |-> "get", tx |-> w.tx, rx |-> rx, res |-> r]>>
      stored == IF name = "get_last_error_code" THEN error_desc(r.val)
                ELSE IF name = "get_alarms" THEN alarm_desc(r.val)
                ELSE r.val
  IN  IF w.raised # "" THEN [cache |-> ch, xch |-> <<>>, out |-> Raise(w.raised)]
      ELSE IF r.kind = "raise" THEN [cache |-> ch, xch |-> x, out |-> r]
      ELSE [cache |-> [ch EXCEPT ![GetterField("get_status_word")] = stored],
            xch |-> x, out |-> Return(stored)]

\* One get_ method: write the query, classify the reply as "get", store it
getter(name, node_id, c, ch, rx) ==
  LET g == Getters[name]
      w == serial_write(g.code \o <<"?", "\r">>, node_id, c)
      r == serial_response("get", rx)
      x == <<[type |-> "get", tx |-> w.tx, rx |-> rx, res |-> r]>>
      stored == IF name = "get_last_error_code" THEN error_desc(r.val)
                ELSE IF name = "get_alarms" THEN alarm_desc(r.val)
                ELSE r.val
  IN  IF w.raised # "" THEN [cache |-> ch, xch |-> <<>>, out |-> Raise(w.raised)]
      ELSE IF r.kind = "raise" THEN [cache |-> ch, xch |-> x, out |-> r]
      ELSE [cache |-> [ch EXCEPT ![GetterField(name)] = stored], xch |-> x, out |-> Return(stored)]

\* A setter that stores its argument as the device-side value without a read
setter_optimistic(name, value, node_id, c, ch, rx1, rx2) ==
  LET s == Setters[name]
      arg == IF s.fixed # <<>> THEN s.fixed ELSE value
      w == serial_write(s.code \o <<",">> \o arg \o <<"\r">>, node_id, c)
      midas_response == serial_response("set", rx1)
      x == <<[type |-> "set", tx |-> w.tx, rx |-> rx1, res |-> midas_response]>>
      target == IF s.readback # "" THEN GetterField(s.readback) ELSE SetterField(name)
  IN  IF w.raised # "" THEN [cache |-> ch, xch |-> <<>>, out |-> Raise(w.raised)]
      ELSE [cache |-> [ch EXCEPT ![target] = Str(value)], xch |-> x, out |-> midas_response]

\* A setter that sends its command a second time when the first exchange
\* returned anything but True
setter_retry(name, value, node_id, c, ch, rx1, rx2) ==
  LET s == Setters[name]
      arg == IF s.fixed # <<>> THEN s.fixed ELSE value
      w == serial_write(s.code \o <<",">> \o arg \o <<"\r">>, node_id, c)
      midas_response == serial_response("set", rx1)
      x == <<[type |-> "set", tx |-> w.tx, rx |-> rx1, res |-> midas_response]>>
      ch1 == IF s.attr = "" THEN ch ELSE [ch EXCEPT ![SetterField(name)] = Str(value)]
      g == getter(s.readback, node_id, c, ch1, rx2)
  IN  IF w.raised # "" THEN [cache |-> ch, xch |-> <<>>, out |-> Raise(w.raised)]
      ELSE IF midas_response.kind = "raise" THEN [cache |-> ch, xch |-> x, out |-> midas_response]
      ELSE IF midas_response # Return(PyTrue) THEN [cache |-> ch, xch |-> x \o x, out |-> midas_response]
      ELSE IF s.readback = "" THEN [cache |-> ch1, xch |-> x, out |-> midas_response]
      ELSE [cache |-> g.cache, xch |-> x \o g.xch,
            out |-> IF g.out.kind = "raise" THEN g.out ELSE midas_response]

\* One set_ method (also triger_purge, clear_alarms): write the command,
\* classify the reply as "set"; only on True store the argument and read back
setter(name, value, node_id, c, ch, rx1, rx2) ==
  LET s == Setters[name]
      arg == IF s.fixed # <<>> THEN s.fixed ELSE value
      w == serial_write(s.code \o <<",">> \o arg \o <<"\r">>, node_id, c)
      midas_response == serial_response("set", rx1)
      x == <<[type |-> "set", tx |-> w.tx, rx |-> rx1, res |-> midas_response]>>
      ch1 == IF s.attr = "" THEN ch ELSE [ch EXCEPT ![SetterField(name)] = Str(value)]
      g == getter(s.readback, node_id, c, ch1, rx2)
  IN  IF w.raised # "" THEN [cache |-> ch, xch |-> <<>>, out |-> Raise(w.raised)]
      ELSE IF midas_response # Return(PyTrue) THEN [cache |-> ch, xch |-> x, out |-> midas_response]
      ELSE IF s.readback = "" THEN [cache |-> ch1, xch |-> x, out |-> midas_response]
      ELSE [cache |-> g.cache, xch |-> x \o g.xch,
            out |-> IF g.out.kind = "raise" THEN g.out ELSE midas_response]

(***************************************************************************)
(* The state machine                                                       *)
(***************************************************************************)
\* Inputs of the calls.  The accessors called are those the properties below
\* name and one of every shape; each accessor left out (such as
\* get_fill_cycles or set_drain) repeats the code of one that is called,
\* with another command code and another attribute.
CalledGetters ==
  {"get_status_word", "get_status_bit", "get_last_error_code", "get_alarms",
   "get_system_running_hours", "get_alam_masks", "get_critical_alarms",
   "get_return_pressure", "get_tank_temperature", "get_preheat_time",
   "get_pump_timeout", "get_fill_speed", "get_manual_meniscus",
   "get_purge_pressure", "get_purge_status", "get_purge_time",
   "get_firmware_version", "get_bypass_time", "get_network_id",
   "get_enable_bits", "get_extended_enable_bits"}
CalledSetters ==
  {"set_alam_masks", "set_critical_alarms", "clear_alarms",
   "set_return_pressure", "set_tank_temperature", "set_preheat_time",
   "set_pump_timeout", "set_fill_speed", "set_manual_meniscus",
   "set_purge_pressure", "triger_purge", "set_purge_time",
   "set_active_heads", "set_bypass_time", "set_startup_function",
   "set_network_id", "set_enable_bits", "set_extended_enable_bits"}
Nodes == {0, 3, MaxNode}
AllNodes == (0 - 1)..MaxNode
Values == {<<"4", "5">>, <<"9", "9", "9">>}

\* The read of the read-back, when the setter makes one
NoRead == RxFail("")
ReadBackOutcomes(name, rx1, c) ==
  IF serial_response("set", rx1) = Return(PyTrue) /\ Setters[name].readback # ""
    THEN ReadOutcomes(c) ELSE {NoRead}

\* Midas(port) with the defaults of Midas.__init__, and another configuration
DefaultConfig ==
  [port |-> "COM3", baudrate |-> 115200, stopbits |-> 1, parity |-> "N",
   databits |-> 8, timeout |-> 1]
Configs ==
  {DefaultConfig,
   [port |-> "COM4", baudrate |-> 9600, stopbits |-> 2, parity |-> "E",
    databits |-> 7, timeout |-> 2]}

\* serial.Serial(port=self.port, ...): the keyword arguments of the port object
NoSerial == [port |-> "", baudrate |-> 0, parity |-> "", stopbits |-> 0, bytesize |-> 0, timeout |-> 0]
serial_Serial(cfg) ==
  [port |-> cfg.port, baudrate |-> cfg.baudrate, parity |-> cfg.parity,
   stopbits |-> cfg.stopbits, bytesize |-> cfg.databits, timeout |-> cfg.timeout]

\* Two callers of one facade; neither is inside a call, the line is silent
Callers == {"a", "b"}
NotCalling == [at |-> "idle", op |-> "", id |-> <<"", 0>>]
NoTake == [by |-> <<"", 0>>, of |-> <<"", 0>>]
LineInit ==
  /\ lock = "free"
  /\ pc = [c \in Callers |-> NotCalling]
  /\ inbuf = <<>>
  /\ inflight = <<>>
  /\ took = NoTake

NoCall ==
  [op |-> "", kind |-> "none", arg |-> <<>>, node |-> 0, conn |-> "none",
   xch |-> <<>>, out |-> Return(Str(<<>>))]

Init ==
  /\ conn = "none"
  /\ cache = [f \in Fields |-> Str(<<>>)]
  /\ last = NoCall
  /\ calls = 0
  /\ config = DefaultConfig
  /\ port_settings = NoSerial
  /\ LineInit

\* An open_connection that also empties the caches
OpenConnection_resets ==
  /\ last = NoCall
  /\ conn' = open_connection
  /\ port_settings' = serial_Serial(config)
  /\ cache' = [f \in Fields |-> Str(<<>>)]
  /\ UNCHANGED <<last, calls, config, linevars>>

OpenConnection ==
  /\ last = NoCall
  /\ conn' = open_connection
  /\ port_settings' = serial_Serial(config)
  /\ UNCHANGED <<cache, last, calls, config, linevars>>

\* A close_connection that also resets the timeout of the configuration
CloseConnection_clears_timeout ==
  /\ last = NoCall
  /\ conn' = close_connection(conn)
  /\ config' = [config EXCEPT !.timeout = 0]
  /\ UNCHANGED <<cache, last, calls, port_settings, linevars>>

CloseConnection ==
  /\ last = NoCall
  /\ conn' = close_connection(conn)
  /\ UNCHANGED <<cache, last, calls, config, port_settings, linevars>>

\* The caller has taken the result of the call; the next call may start
Resume ==
  /\ last # NoCall
  /\ last' = NoCall
  /\ UNCHANGED <<conn, cache, calls, config, port_settings, linevars>>

Get(name, node_id, rx) ==
  LET g == getter(name, node_id, conn, cache, rx)
  IN  /\ calls < MaxCalls
      /\ cache' = g.cache
      /\ last' = [op |-> name, kind |-> "get", arg |-> <<>>, node |-> node_id,
                  conn |-> conn, xch |-> g.xch, out |-> g.out]
      /\ calls' = calls + 1
      /\ UNCHANGED <<conn, config, port_settings, linevars>>

Set(name, value, node_id, rx1, rx2) ==
  LET s == setter(name, value, node_id, conn, cache, rx1, rx2)
  IN  /\ calls < MaxCalls
      /\ cache' = s.cache
      /\ last' = [op |-> name, kind |-> "set",
                  arg |-> IF Setters[name].fixed # <<>> THEN <<>> ELSE value,
                  node |-> node_id, conn |-> conn, xch |-> s.xch, out |-> s.out]
      /\ calls' = calls + 1
      /\ UNCHANGED <<conn, config, port_settings, linevars>>

\* The caller is between calls and may make another one
Idle == last = NoCall /\ calls < MaxCalls

Next ==
  \/ OpenConnection
  \/ CloseConnection
  \/ /\ Idle
     /\ \E name \in CalledGetters, node_id \in Nodes, rx \in ReadOutcomes(conn) :
          Get(name, node_id, rx)
  \/ /\ Idle
     /\ \E name \in CalledSetters, value \in Values, node_id \in Nodes,
           rx1 \in ReadOutcomes(conn) :
          \E rx2 \in ReadBackOutcomes(name, rx1, conn) : Set(name, value, node_id, rx1, rx2)
  \/ Resume

Spec == Init /\ [][Next]_vars

(***************************************************************************)
(* Framing only: one accessor call on an open port, for every accessor and *)
(* every node_id from -1 to MaxNode                                        *)
(***************************************************************************)
InitWrite ==
  /\ conn = "open"
  /\ cache = [f \in Fields |-> Str(<<>>)]
  /\ last = NoCall
  /\ calls = 0
  /\ config = DefaultConfig
  /\ port_settings = serial_Serial(DefaultConfig)
  /\ LineInit

NextWrite ==
  \/ /\ calls = 0
     /\ \E name \in DOMAIN Getters, node_id \in AllNodes, rx \in ReadOutcomes(conn) :
          Get(name, node_id, rx)
  \/ /\ calls = 0
     /\ \E name \in DOMAIN Setters, value \in Values, node_id \in AllNodes,
           rx1 \in ReadOutcomes(conn) :
          \E rx2 \in ReadBackOutcomes(name, rx1, conn) : Set(name, value, node_id, rx1, rx2)

SpecWrite == InitWrite /\ [][NextWrite]_vars

(***************************************************************************)
(* The facade constructed with either configuration                        *)
(***************************************************************************)
InitConfig ==
  /\ conn = "none"
  /\ cache = [f \in Fields |-> Str(<<>>)]
  /\ last = NoCall
  /\ calls = 0
  /\ config \in Configs
  /\ port_settings = NoSerial
  /\ LineInit

SpecConfig == InitConfig /\ [][Next]_vars

(***************************************************************************)
(* Vocabulary of the properties                                            *)
(***************************************************************************)
\* Bytes of the characters the protocol names
QuestionMark == 63
GreaterThan == 62
Comma == 44
CarriageReturn == 13
AtSign == 64

\* The canonical confirmation frame ",A,C" and the reply classes of the
\* protocol: the check character is the third from the end of the frame
ConfirmFrame == <<44, 65, 44, 67>>
CheckByte(f) == IF Len(f) >= 3 THEN f[Len(f) - 2] ELSE 0
IsErrorFrame(f) == CheckByte(f) \in {QuestionMark, GreaterThan}
IsValueFrame(f) == Len(f) >= 5 /\ ~IsErrorFrame(f)
Payload(f) == Str([i \in 1..(Len(f) - 4) |-> chr(f[i + 2])])

\* A call l (a value of last): the frames it wrote and the reply to its
\* first command
FramesIn(l) == {l.xch[i].tx[1] : i \in {j \in 1..Len(l.xch) : l.xch[j].tx # <<>>}}
HasReplyFrame(l) == Len(l.xch) >= 1 /\ l.xch[1].rx.kind = "bytes"
ReplyFrame(l) == IF HasReplyFrame(l) THEN l.xch[1].rx.data ELSE <<>>
ReplyIs(l, frame) == HasReplyFrame(l) /\ l.xch[1].rx.data = frame

\* Parameters with an actual/demand pair, by setter
PairSetters == {s \in DOMAIN Setters : Setters[s].key = "demand"}
Demand(s) == Field(Setters[s].attr, "demand")
Actual(s) == Field(Setters[s].attr, "actual")
Empty == Str(<<>>)

\* A step that is one accessor call
CallStep == last = NoCall /\ last' # NoCall

\* The getter whose query is exchange i of call l, and the command of that exchange
ReadBy(l) == IF l.kind = "get" THEN l.op ELSE Setters[l.op].readback
CommandOf(l, i) ==
  IF l.xch[i].type = "get"
    THEN bytes_utf8(Getters[ReadBy(l)].code) \o <<QuestionMark, CarriageReturn>>
    ELSE bytes_utf8(Setters[l.op].code) \o <<Comma>>
           \o bytes_utf8(IF Setters[l.op].fixed # <<>> THEN Setters[l.op].fixed ELSE l.arg)
           \o <<CarriageReturn>>

\* The decimal number a string of digits spells
RECURSIVE ToInt(_)
ToInt(s) ==
  IF s = <<>> THEN 0 ELSE 10 * ToInt(SubSeq(s, 1, Len(s) - 1)) + (ord(s[Len(s)]) - 48)

\* The ranges the docstrings of the setters declare
DeclaredRange ==
  [set_return_pressure |-> 0..1500,
   set_non_recirc_meniscus_pressure |-> 0..1500,
   set_infeed_pressure |-> 0..255,
   set_tank_temperature |-> 0..60,
   set_aux_temperture |-> 0..60,
   set_preheat_time |-> 0..600,
   set_heater_1_duty |-> 0..100,
   set_heater_2_duty |-> 0..100,
   set_pump_timeout |-> 0..90,
   set_manual_recirc_speed |-> 0..700,
   set_fill_speed |-> 0..255,
   set_purge_pressure |-> 0..500,
   set_purge_time |-> 0..255,
   set_local_purge_time |-> 0..60,
   set_bypass_time |-> 0..600,
   set_network_id |-> 1..15]

(***************************************************************************)
(* C1: after a set call whose reply is the confirmation, demand is the     *)
(* value passed and actual is the result of the read-back query the setter *)
(* issued next.                                                            *)
(***************************************************************************)
C1_ConfirmedSetRefreshesCache ==
  \A s \in PairSetters :
    (last.kind = "set" /\ last.op = s /\ last.conn = "open" /\ ReplyIs(last, ConfirmFrame))
      => /\ cache[Demand(s)] = Str(last.arg)
         /\ Len(last.xch) = 2
         /\ last.xch[2].type = "get"
         /\ last.xch[2].res.kind = "return"
         /\ cache[Actual(s)] = last.xch[2].res.val

(***************************************************************************)
(* C2: after a set call whose reply is not the confirmation (an error      *)
(* token, any other frame, a transport failure), actual and demand are as  *)
(* before the call and the call returns a result that is not True.         *)
(***************************************************************************)
C2_UnconfirmedSetLeavesCache ==
  [][\A s \in PairSetters :
       (CallStep /\ last'.kind = "set" /\ last'.op = s /\ last'.conn = "open"
          /\ ~ReplyIs(last', ConfirmFrame))
         => /\ cache'[Demand(s)] = cache[Demand(s)]
            /\ cache'[Actual(s)] = cache[Actual(s)]
            /\ last'.out.kind = "return"
            /\ last'.out.val # PyTrue]_vars

(***************************************************************************)
(* C3: demand of a parameter is its initial empty value or the value of    *)
(* the most recent set call for it whose reply was the confirmation: a     *)
(* confirmed set makes demand the value passed, no other step changes it.  *)
(***************************************************************************)
C3_DemandIsLastConfirmedSet ==
  [][\A s \in PairSetters :
       IF CallStep /\ last'.kind = "set" /\ last'.op = s /\ ReplyIs(last', ConfirmFrame)
         THEN cache'[Demand(s)] = Str(last'.arg)
         ELSE cache'[Demand(s)] = cache[Demand(s)]]_vars

(***************************************************************************)
(* C4: the attribute a getter assigns changes only in a step that stores   *)
(* the result of a get exchange of that getter (the call of the getter, or *)
(* the read-back of a setter); no setter stores its own argument into it.  *)
(* The two getters that decode (get_last_error_code, get_alarms) store the *)
(* description of the result.                                              *)
(***************************************************************************)
StoredByGet(l, c, f) ==
  /\ l.xch # <<>>
  /\ LET x == l.xch[Len(l.xch)]
     IN  /\ x.type = "get"
         /\ x.res.kind = "return"
         /\ GetterField(ReadBy(l)) = f
         /\ \/ ReadBy(l) \in {"get_last_error_code", "get_alarms"}
            \/ c[f] = x.res.val

C5_GetterStoresPayload ==
  \A g \in DOMAIN Getters :
    (last.kind = "get" /\ last.op = g /\ last.conn = "open" /\ IsValueFrame(ReplyFrame(last)))
      => /\ Len(last.xch) = 1
         /\ last.xch[1].tx =
              <<(IF last.node # 0 THEN <<AtSign + last.node>> ELSE <<>>)
                  \o bytes_utf8(Getters[g].code) \o <<QuestionMark, CarriageReturn>>>>
         /\ cache[GetterField(g)] = Payload(ReplyFrame(last))
         /\ last.out = Return(Payload(ReplyFrame(last)))

(***************************************************************************)
(* C6: a getter whose reply is Malformed-Command ('?') or Missing-Data     *)
(* ('>') returns an error result and leaves every cached value unchanged.  *)
(***************************************************************************)
ErrorResults == {Str(<<"?", ",", "C">>), Str(<<"<", ",", "C">>)}

C6_ErrorReplyLeavesCache ==
  [][(CallStep /\ last'.kind = "get" /\ IsErrorFrame(ReplyFrame(last')))
       => /\ last'.out.kind = "return"
          /\ last'.out.val \in ErrorResults
          /\ cache' = cache]_vars

(***************************************************************************)
(* C7: a setter of a parameter with a declared range, called with a value  *)
(* outside the range, returns a Domain-Validation-Error, writes nothing to *)
(* the transport and changes no cache.                                     *)
(***************************************************************************)
C7_OutOfRangeRejected ==
  [][\A s \in DOMAIN DeclaredRange :
       (CallStep /\ last'.kind = "set" /\ last'.op = s /\ last'.conn = "open"
          /\ ToInt(last'.arg) \notin DeclaredRange[s])
         => /\ FramesIn(last') = {}
            /\ cache' = cache
            /\ last'.out.val = Exc("Domain-Validation-Error")]_vars

(***************************************************************************)
(* C8: a call with a node_id outside 0..15 writes nothing, and the address *)
(* prefix of every frame written is one of 'A'..'O'.                       *)
(***************************************************************************)
C8_InvalidNodeNeverWritten ==
  \A f \in FramesIn(last) :
    /\ last.node \in 0..15
    /\ last.node # 0 => f[1] \in 65..79

(***************************************************************************)
(* C9: for node_id in 1..15 the frame written is the byte '@' + node_id    *)
(* followed by the command unchanged; for node_id 0 it is the command.     *)
(***************************************************************************)
C9_NodePrefix ==
  \A i \in 1..Len(last.xch) :
    last.xch[i].tx # <<>>
      => /\ Len(last.xch[i].tx) = 1
         /\ last.node \in 1..15
              => last.xch[i].tx[1] = <<AtSign + last.node>> \o CommandOf(last, i)
         /\ last.node = 0 => last.xch[i].tx[1] = CommandOf(last, i)

C9_Witness ==
  /\ last.node = 15
  /\ Len(last.xch) = 1
  /\ last.xch[1].tx # <<>>
  /\ last.xch[1].tx[1][1] = 79

(***************************************************************************)
(* C10: every frame written is an optional node letter ('A'..'O'), a       *)
(* command code of three characters, then '?' or ',' and a value, and ends *)
(* in its only carriage return.                                            *)
(***************************************************************************)
IsCodeByte(b) == b \in 65..90 \/ b \in 48..57

WellFormedFrame(f) ==
  \E p \in {0, 1} :
    /\ Len(f) >= p + 5
    /\ p = 1 => f[1] \in 65..79
    /\ \A i \in (p + 1)..(p + 3) : IsCodeByte(f[i])
    /\ \/ f[p + 4] = QuestionMark /\ Len(f) = p + 5
       \/ f[p + 4] = Comma /\ Len(f) >= p + 6
    /\ f[Len(f)] = CarriageReturn
    /\ \A i \in 1..(Len(f) - 1) : f[i] # CarriageReturn

C10_FrameShape == \A f \in FramesIn(last) : WellFormedFrame(f)

(***************************************************************************)
(* Vocabulary of the exchanges                                             *)
(***************************************************************************)
\* The tokens serial_response returns for the two error markers
MalformedCommand == Str(<<"?", ",", "C">>)
MissingData == Str(<<"<", ",", "C">>)

\* The address prefix of a frame to node n
NodePrefix(n) == IF n # 0 THEN <<AtSign + n>> ELSE <<>>

\* An exchange whose read delivered a frame, and one whose read failed
GotFrame(x) == x.rx.kind = "bytes"
ReadFailed(x) == x.rx.kind \in {"TimeoutError", "SerialException"}

\* An exchange that did not succeed: a failed read, an error marker, or a
\* set whose reply is not the confirmation
ExchangeFailed(x) ==
  \/ ReadFailed(x)
  \/ GotFrame(x) /\ IsErrorFrame(x.rx.data)
  \/ GotFrame(x) /\ x.type = "set" /\ x.rx.data # ConfirmFrame

\* The events of a call on the port, in the order the accessor makes them:
\* serial_write hands each frame of tx to serial.write, then
\* serial_response calls serial.read_until
RECURSIVE WireTrace(_)
WireTrace(xs) ==
  IF xs = <<>> THEN <<>>
  ELSE [i \in 1..Len(xs[1].tx) |-> "w"] \o <<"r">> \o WireTrace(Tail(xs))

Alternates(t) ==
  /\ Len(t) % 2 = 0
  /\ \A i \in 1..Len(t) : t[i] = IF i % 2 = 1 THEN "w" ELSE "r"

(***************************************************************************)
(* C11: a reply whose check character (third from the end) is '?' is       *)
(* classified Malformed-Command and one whose check character is '>' is    *)
(* classified Missing-Data, for "set" and for "get" exchanges alike.       *)
(***************************************************************************)
C11_ErrorMarkerClassified ==
  \A i \in 1..Len(last.xch) :
    (GotFrame(last.xch[i]) /\ IsErrorFrame(last.xch[i].rx.data))
      => last.xch[i].res =
           Return(IF CheckByte(last.xch[i].rx.data) = QuestionMark
                    THEN MalformedCommand ELSE MissingData)

(***************************************************************************)
(* C12: for a "set" exchange whose reply has no error marker, the result   *)
(* is the boolean True when the frame is exactly ",A,C" and the boolean    *)
(* False for every other frame, never an exception.                        *)
(***************************************************************************)
C12_SetResultIsBoolean ==
  \A i \in 1..Len(last.xch) :
    (last.xch[i].type = "set" /\ GotFrame(last.xch[i]) /\ ~IsErrorFrame(last.xch[i].rx.data))
      => last.xch[i].res = Return(PyBool(last.xch[i].rx.data = ConfirmFrame))

(***************************************************************************)
(* C13: for a "get" exchange whose reply has no error marker, the result   *)
(* is the substring of the frame after its second character and before its *)
(* last two characters.                                                    *)
(***************************************************************************)
C13_GetResultIsPayload ==
  \A i \in 1..Len(last.xch) :
    (last.xch[i].type = "get" /\ GotFrame(last.xch[i]) /\ ~IsErrorFrame(last.xch[i].rx.data))
      => last.xch[i].res = Return(Payload(last.xch[i].rx.data))

(***************************************************************************)
(* C14: when the read of an exchange times out or finds the port closed,   *)
(* the outcome of the accessor call is the transport failure carrying that *)
(* error, not a value.                                                     *)
(***************************************************************************)
C14_TransportFailureIsOutcome ==
  \A i \in 1..Len(last.xch) :
    ReadFailed(last.xch[i]) => last.out = Return(Exc(last.xch[i].rx.kind))

(***************************************************************************)
(* C15: every accessor call ends by returning a result, whatever frame the *)
(* transport delivers and whatever state the transport is in; none ends    *)
(* with an uncaught error.                                                 *)
(***************************************************************************)
C15_EveryCallReturns == last.out.kind = "return"

(***************************************************************************)
(* C16: on an open port a getter call makes exactly one exchange (one      *)
(* write, one read); a setter call makes exactly two when its set is       *)
(* confirmed and exactly one when it is not.                               *)
(***************************************************************************)
C16_ExchangeCount ==
  (last.kind # "none" /\ last.conn = "open")
    => /\ \A i \in 1..Len(last.xch) : Len(last.xch[i].tx) = 1
       /\ last.kind = "get" => Len(last.xch) = 1
       /\ last.kind = "set"
            => Len(last.xch) = IF ReplyIs(last, ConfirmFrame) THEN 2 ELSE 1

(***************************************************************************)
(* C17: after a confirmed set the next frame written is the read-back: the *)
(* query of the same command code, addressed to the same node_id.          *)
(***************************************************************************)
C17_ReadBackFollowsSet ==
  (last.kind = "set" /\ last.conn = "open" /\ ReplyIs(last, ConfirmFrame))
    => /\ Len(last.xch) >= 2
       /\ last.xch[2].tx =
            <<NodePrefix(last.node) \o bytes_utf8(Setters[last.op].code)
                \o <<QuestionMark, CarriageReturn>>>>

(***************************************************************************)
(* C18: in the trace of a call on the port, writes and reads alternate,    *)
(* starting with a write: no read is made without a command transmitted    *)
(* for it and no second command is written before the read of the first.   *)
(***************************************************************************)
C18_WritesAndReadsAlternate == Alternates(WireTrace(last.xch))

(***************************************************************************)
(* C19: after an exchange that fails the accessor call writes no further   *)
(* frame and does not send the command again; an accessor call never       *)
(* changes whether the port is open.                                       *)
(***************************************************************************)
C19_NoRetryNoReopen ==
  [][CallStep
       => /\ conn' = conn
          /\ \A i \in 1..Len(last'.xch) :
               ExchangeFailed(last'.xch[i]) => i = Len(last'.xch)]_vars

C19_Witness ==
  /\ last.kind = "set"
  /\ last.conn = "open"
  /\ conn = "open"
  /\ Len(last.xch) = 1
  /\ ReadFailed(last.xch[1])
  /\ Len(last.xch[1].tx) = 1

(***************************************************************************)
(* C20: whenever the port is not open, after close_connection and before   *)
(* open_connection was ever called, the write of an accessor call          *)
(* transmits nothing and reports no error.                                 *)
(***************************************************************************)
C20_WriteDroppedWhenNotOpen ==
  (last.kind # "none" /\ last.conn # "open")
    => /\ FramesIn(last) = {}
       /\ last.xch # <<>>
       /\ last.out # Raise("AttributeError")

(***************************************************************************)
(* C21: the outcome of an accessor call and the caches after it depend on  *)
(* the reply and the kind of exchange, not on node_id: the same accessor   *)
(* called from the same state with the same replies for any other node_id  *)
(* has the same outcome and leaves the same caches.                        *)
(***************************************************************************)
RxOf(l, i) == IF Len(l.xch) >= i THEN l.xch[i].rx ELSE NoRead

SameCallToNode(l, n, c, ch) ==
  IF l.kind = "get"
    THEN getter(l.op, n, c, ch, RxOf(l, 1))
    ELSE setter(l.op, l.arg, n, c, ch, RxOf(l, 1), RxOf(l, 2))

C21_OutcomeIndependentOfNode ==
  [][CallStep
       => \A n \in Nodes :
            /\ SameCallToNode(last', n, conn, cache).out = last'.out
            /\ SameCallToNode(last', n, conn, cache).cache = cache']_vars

C21_Witness ==
  /\ last.kind = "get"
  /\ last.node = 3
  /\ last.conn = "open"
  /\ last.out = Return(Exc("TimeoutError"))
  /\ cache[GetterField(last.op)] = Exc("TimeoutError")

(***************************************************************************)
(* C23: get_last_error_code returns the fixed description of the codes 0,  *)
(* 10, ..., 70 and the fallback description for every other result of its  *)
(* exchange (another payload, an error token, a transport failure); it     *)
(* never fails and changes no cached field but error_desc.                 *)
(***************************************************************************)
ExpectedErrorDesc(x) ==
  IF GotFrame(x) /\ ~IsErrorFrame(x.rx.data)
    THEN error_desc(Payload(x.rx.data))
    ELSE Lit("No response")

C23_ErrorCodeDescribed ==
  [][(CallStep /\ last'.op = "get_last_error_code" /\ last'.conn = "open")
       => /\ Len(last'.xch) = 1
          /\ last'.out = Return(ExpectedErrorDesc(last'.xch[1]))
          /\ \A f \in Fields \ {GetterField("get_last_error_code")} :
               cache'[f] = cache[f]]_vars

(***************************************************************************)
(* C24: after construction every cache is empty; opening and closing the   *)
(* port change no cache; a cache changes only in the step of an accessor   *)
(* call.                                                                   *)
(***************************************************************************)
AllCachesEmpty == \A f \in Fields : cache[f] = Empty

C24_CachesChangeOnlyInCalls ==
  /\ AllCachesEmpty
  /\ [][cache' # cache => CallStep]_vars

C24_Witness ==
  /\ conn = "closed"
  /\ last = NoCall
  /\ calls = 1
  /\ ~AllCachesEmpty

(***************************************************************************)
(* C26: a getter of a bitmask parameter (STA, SSB, SA1, SAB, SAM, SEB,     *)
(* SEE) returns and caches what its exchange delivered, unchanged: the     *)
(* payload when the reply is a value frame, and never a description put in *)
(* the place of the result.                                                *)
(***************************************************************************)
BitmaskGetters ==
  {"get_status_word", "get_status_bit", "get_alarms", "get_alam_masks",
   "get_critical_alarms", "get_enable_bits", "get_extended_enable_bits"}

C26_BitmaskIsRaw ==
  (last.kind = "get" /\ last.op \in BitmaskGetters /\ last.conn = "open")
    => /\ IsValueFrame(ReplyFrame(last))
            => /\ last.out = Return(Payload(ReplyFrame(last)))
               /\ cache[GetterField(last.op)] = Payload(ReplyFrame(last))
       /\ last.xch[1].res.kind = "return"
            => /\ last.out = last.xch[1].res
               /\ cache[GetterField(last.op)] = last.xch[1].res.val

(***************************************************************************)
(* C27: a getter whose read fails (timeout, closed port) leaves its        *)
(* attribute as it was, and no cached attribute ever holds a failure       *)
(* object.                                                                 *)
(***************************************************************************)
C27_FailureNeverCached ==
  [][(CallStep /\ last'.kind = "get" /\ last'.xch # <<>> /\ ReadFailed(last'.xch[1]))
       => /\ cache'[GetterField(last'.op)] = cache[GetterField(last'.op)]
          /\ \A f \in Fields : cache'[f].t # "exc"]_vars

(***************************************************************************)
(* C28: getters that assign different attributes use different command     *)
(* codes: no other getter with another attribute writes, for the same      *)
(* node_id, the query frame a getter call has written.                     *)
(***************************************************************************)
QueryFrame(g, n) == serial_write(Getters[g].code \o <<"?", "\r">>, n, "open").tx

C28_DistinctQueryFrames ==
  (last.kind = "get" /\ last.xch # <<>>)
    => \A g \in DOMAIN Getters :
         GetterField(g) # GetterField(last.op)
           => QueryFrame(g, last.node) # last.xch[1].tx

(***************************************************************************)
(* C29: an accessor call changes no cached attribute of another parameter: *)
(* a getter changes at most the attribute it assigns, a setter at most the *)
(* attribute it assigns and the one its read-back assigns.                 *)
(***************************************************************************)
ParamFields(l) ==
  IF l.kind = "get" THEN {GetterField(l.op)}
  ELSE (IF Setters[l.op].attr # "" THEN {SetterField(l.op)} ELSE {})
         \cup (IF Setters[l.op].readback # ""
                 THEN {GetterField(Setters[l.op].readback)} ELSE {})

C29_OtherParametersUntouched ==
  [][CallStep
       => \A f \in Fields \ ParamFields(last') : cache'[f] = cache[f]]_vars

C29_Witness ==
  /\ calls = 2
  /\ last.op = "get_tank_temperature"
  /\ cache[Field("tank_temperature", "actual")] = Exc("SerialException")
  /\ cache[Field("status_word", "")] = Exc("TimeoutError")

(***************************************************************************)
(* C30: a parameter has one slot for all nodes: whatever node_id a call is *)
(* addressed to, after a query answered by a value frame the attribute     *)
(* holds that payload, and after a confirmed set demand holds the value    *)
(* passed, replacing what a call to another node left there.               *)
(***************************************************************************)
C30_SlotSharedByNodes ==
  [][\A n \in Nodes :
       (CallStep /\ last'.node = n /\ last'.conn = "open")
         => /\ (last'.kind = "get" /\ IsValueFrame(ReplyFrame(last')))
                 => cache'[GetterField(last'.op)] = Payload(ReplyFrame(last'))
            /\ (last'.kind = "set" /\ last'.op \in PairSetters
                  /\ ReplyIs(last', ConfirmFrame))
                 => cache'[Demand(last'.op)] = Str(last'.arg)]_vars

(***************************************************************************)
(* C25: the configuration given at construction (port, baud rate, stop     *)
(* bits, parity, data bits, timeout) is changed by no operation, and it is *)
(* read only by open_connection: the settings of the port change only in   *)
(* the step of open_connection, which passes the configuration on.         *)
(***************************************************************************)
C25_ConfigFixed ==
  [][/\ config' = config
     /\ port_settings' # port_settings
          => /\ last = NoCall
             /\ last' = NoCall
             /\ conn' = "open"
             /\ port_settings' = serial_Serial(config)]_vars

C25_Witness ==
  /\ conn = "closed"
  /\ calls = 2
  /\ config.timeout = 2
  /\ port_settings = serial_Serial(config)

(***************************************************************************)
(* Two callers of one facade on an open port, each taking a lock around    *)
(* the facade for the whole of every accessor call.  A call is made step   *)
(* by step: serial_write, then serial_response and the rest of the         *)
(* accessor.  The device answers each frame it receives; its reply reaches *)
(* the port at any later time, before the read gives up or after.          *)
(***************************************************************************)
LineAccessors == {"get_tank_temperature", "set_tank_temperature"}
LineValue == <<"4", "5">>
DeviceReplies == {ConfirmFrame, bytes_utf8(<<",", "A", "4", "5", ",", "C">>)}

TypeOfCall(op) == IF op \in DOMAIN Getters THEN "get" ELSE "set"
CommandOfCall(op) ==
  IF op \in DOMAIN Getters
    THEN Getters[op].code \o <<"?", "\r">>
    ELSE Setters[op].code \o <<",">> \o LineValue \o <<"\r">>

InitLine ==
  /\ conn = "open"
  /\ cache = [f \in Fields |-> Str(<<>>)]
  /\ last = NoCall
  /\ calls = 0
  /\ config = DefaultConfig
  /\ port_settings = serial_Serial(DefaultConfig)
  /\ LineInit

\* Caller c takes the lock and enters the accessor
Acquire(c, name) ==
  /\ calls < MaxCalls
  /\ pc[c].at = "idle"
  /\ lock = "free"
  /\ lock' = c
  /\ pc' = [pc EXCEPT ![c] = [at |-> "entered", op |-> name, id |-> <<c, calls + 1>>]]
  /\ calls' = calls + 1
  /\ UNCHANGED <<conn, cache, last, config, port_settings, inbuf, inflight, took>>

\* serial_write of the call; the device will answer the frame with reply
Write(c, reply) ==
  /\ pc[c].at = "entered"
  /\ serial_write(CommandOfCall(pc[c].op), 0, conn).raised = ""
  /\ inflight' =
       IF serial_write(CommandOfCall(pc[c].op), 0, conn).tx # <<>>
         THEN Append(inflight, [id |-> pc[c].id, frame |-> reply])
         ELSE inflight
  /\ pc' = [pc EXCEPT ![c].at = "written"]
  /\ UNCHANGED <<conn, cache, last, calls, config, port_settings, lock, inbuf, took>>

\* A reply of the device reaches the input buffer of the port
DeviceReply ==
  /\ inflight # <<>>
  /\ inbuf' = Append(inbuf, Head(inflight))
  /\ inflight' = Tail(inflight)
  /\ UNCHANGED <<conn, cache, last, calls, config, port_settings, lock, pc, took>>

\* What serial.read_until gives: the oldest frame in the buffer, or, with
\* nothing received before the timeout, no bytes or a TimeoutError
LineReads == IF inbuf # <<>> THEN {RxFrame(Head(inbuf).frame)}
             ELSE {RxFrame(<<>>), RxFail("TimeoutError")}

\* serial_response of the call and the statements of the accessor after it;
\* the caller releases the lock when the call returns or raises
Read(c, rx) ==
  LET op == pc[c].op
      r == serial_response(TypeOfCall(op), rx)
      confirmed == TypeOfCall(op) = "set" /\ r = Return(PyTrue)
  IN  /\ pc[c].at = "written"
      /\ inbuf' = IF inbuf # <<>> THEN Tail(inbuf) ELSE inbuf
      /\ took' = IF inbuf # <<>> THEN [by |-> pc[c].id, of |-> Head(inbuf).id] ELSE took
      /\ cache' =
           IF r.kind = "raise" THEN cache
           ELSE IF TypeOfCall(op) = "get" THEN [cache EXCEPT ![GetterField(op)] = r.val]
           ELSE IF confirmed THEN [cache EXCEPT ![SetterField(op)] = Str(LineValue)]
           ELSE cache
      /\ pc' = IF confirmed /\ Setters[op].readback # ""
                 THEN [pc EXCEPT ![c] = [at |-> "entered", op |-> Setters[op].readback, id |-> pc[c].id]]
                 ELSE [pc EXCEPT ![c] = NotCalling]
      /\ lock' = IF confirmed /\ Setters[op].readback # "" THEN lock ELSE "free"
      /\ UNCHANGED <<conn, last, calls, config, port_settings, inflight>>

NextLine ==
  \/ \E c \in Callers, name \in LineAccessors : Acquire(c, name)
  \/ \E c \in Callers, reply \in DeviceReplies : Write(c, reply)
  \/ DeviceReply
  \/ \E c \in Callers, rx \in LineReads : Read(c, rx)

SpecLine == InitLine /\ [][NextLine]_vars

(***************************************************************************)
(* C22: with two callers that each hold the lock for the whole of every    *)
(* accessor call, every reply is read by the call that wrote the command   *)
(* it answers, and no caller is inside a call while another holds the      *)
(* lock, so nothing is written between a set and its read-back.            *)
(***************************************************************************)
C22_RepliesReadByTheirCall ==
  /\ took.by = took.of
  /\ \A c \in Callers : pc[c].at # "idle" => lock = c

(***************************************************************************)
(* C31: with the calls of one caller made one after the other, the frame   *)
(* an exchange reads and classifies is the device's reply to the command   *)
(* written in that exchange, also when an earlier exchange gave up before  *)
(* its reply arrived: a call never reads the reply to an earlier call.     *)
(***************************************************************************)
SameCaller(t) == t.by[1] = t.of[1]

C31_ReplyAnswersItsExchange ==
  (took # NoTake /\ SameCaller(took)) => took.by[2] = took.of[2]

(***************************************************************************)
(* C32: what a getter gives its caller for a reply with an error marker    *)
(* ('?' or '>') differs from what it gives for any reply that is a value   *)
(* frame, so that the caller can tell an error from a value.               *)
(***************************************************************************)
ValueFrames == {f \in Frames : IsValueFrame(f)}

C32_ErrorDistinctFromValue ==
  (last.kind = "get" /\ last.conn = "open" /\ IsErrorFrame(ReplyFrame(last)))
    => \A f \in ValueFrames :
         getter(last.op, last.node, last.conn, cache, RxFrame(f)).out # last.out

====
